---- MODULE Spec2Model ----
(***************************************************************************)
(* smf-async: Standard MIDI File reader (src/src/read.rs) and writer       *)
(* (src/src/write.rs) over one seekable byte stream.                       *)
(*                                                                         *)
(* A stream is a sequence of bytes 0..255; offsets are 0-based as in the   *)
(* code, so the byte at offset p is stream[p + 1].                         *)
(***************************************************************************)
EXTENDS Integers, Sequences, FiniteSets, TLC

VARIABLES
    pc,                     \* position of the caller: which call comes next
    stream,                 \* the bytes of the underlying stream
    wpos,                   \* stream position of the writer
    track_count_pos,        \* Writer.track_count_pos
    track_count,            \* Writer.track_count
    track_len_pos,          \* Writer.track_len_pos
    w_last_status,          \* Writer.last_status
    w_sysex_continuation,   \* Writer.sysex_continuation
    wlog,                   \* history: the calls made on the writer, as the callbacks they stand for
    wmeta,                  \* history: counters and marks about the calls made on the writer
    rpos,                   \* stream position of the reader
    num_tracks,             \* read(): num_tracks
    track_index,            \* read(): track_index
    track_end,              \* read(): track_end
    last_status,            \* read(): last_status
    sysex_continuation,     \* read(): sysex_continuation
    callbacks,              \* the calls read() has made on the handler, in order
    hdr,                    \* the arguments of the header() callback
    result,                 \* what read() has returned: Running, Ok or an error
    fail_at,                \* the handler: the number of the call on which it returns Err (0: never)
    vlq_in,                 \* the value handed to TrackWriter::vlq (-1: none)
    vlq_out                 \* what read_vlq returned on the stream

wvars == <<wpos, track_count_pos, track_count, track_len_pos, w_last_status,
           w_sysex_continuation, wlog, wmeta>>
rvars == <<rpos, num_tracks, track_index, track_end, last_status,
           sysex_continuation, callbacks, hdr, result, fail_at>>
vvars == <<vlq_in, vlq_out>>
vars == <<pc, stream, wvars, rvars, vvars>>

(***************************************************************************)
(* Bounds of the model.                                                    *)
(***************************************************************************)
\* events written to one stream, over all its tracks
MaxEvents == 3
\* tracks started on one writer
MaxTracks == 2
\* VLQ sample values lie within this distance of a length threshold
VlqSpread == 2
\* bytes by which a crafted track length undershoots the events of the track
MaxCut == 2

(***************************************************************************)
(* Program constants.                                                      *)
(***************************************************************************)
U8 == 256
U16 == 65536
\* debug_assert!(v <= 0xfffffff)
VlqMax == 268435455
\* header_len != 6
HeaderLen == 6
\* status bytes
SysexStatus == 240
EscapeStatus == 247
MetaStatus == 255

MThd == <<77, 84, 104, 100>>
MTrk == <<77, 84, 114, 107>>

(***************************************************************************)
(* Fixed-width integers.                                                   *)
(***************************************************************************)
\* u8 as i8, u16 as i16
AsI8(x) == IF x >= 128 THEN x - 256 ELSE x
AsI16(x) == IF x >= 32768 THEN x - 65536 ELSE x
\* any integer as u8, as u16 (two's complement truncation)
AsU8(x) == x % U8
AsU16(x) == x % U16

\* u16::to_be_bytes, u32::to_be_bytes
U16Be(n) == <<(n \div 256) % 256, n % 256>>
U32Be(n) == <<(n \div 16777216) % 256, (n \div 65536) % 256, (n \div 256) % 256, n % 256>>
\* u16::from_be_bytes, u32::from_be_bytes
FromBe(b) == IF Len(b) = 2 THEN b[1] * 256 + b[2]
             ELSE ((b[1] * 256 + b[2]) * 256 + b[3]) * 256 + b[4]

\* the bytes of s at offsets from .. from + n - 1
Slice(s, from, n) == [i \in 1..n |-> s[from + i]]
\* s with the bytes at offset at .. replaced by b (seek to at <= Len(s), write_all(b))
WriteAt(s, at, b) == SubSeq(s, 1, at) \o b \o SubSeq(s, at + Len(b) + 1, Len(s))

(***************************************************************************)
(* Errors. Each is an io::Error of kind InvalidData whose message carries  *)
(* the values below, or the UnexpectedEof of read_exact.                   *)
(***************************************************************************)
\* the absence of a byte, a track index or an offset in an error
NoByte == 0 - 1
Running == [kind |-> "Running", byte |-> NoByte, track |-> NoByte, offset |-> NoByte]
Ok == [kind |-> "Ok", byte |-> NoByte, track |-> NoByte, offset |-> NoByte]
Err(kind, byte, track, offset) ==
    [kind |-> kind, byte |-> byte, track |-> track, offset |-> offset]
UnexpectedEof == Err("UnexpectedEof", NoByte, NoByte, NoByte)
\* the H::Error a handler callback returns
HandlerError == Err("Handler", NoByte, NoByte, NoByte)

(***************************************************************************)
(* VLQ codec.                                                              *)
(***************************************************************************)
Pow128(byte) == IF byte = 0 THEN 1 ELSE IF byte = 1 THEN 128
                ELSE IF byte = 2 THEN 16384 ELSE 2097152

\* write.rs: fn b(v, byte)
VlqB(v, byte) == ((v \div Pow128(byte)) % 128) + (IF byte > 0 THEN 128 ELSE 0)

\* Vlq with the two-byte threshold off by one (v > 0x4000)
VlqLateThreshold(v) ==
    IF v > 2097151 THEN <<VlqB(v, 3), VlqB(v, 2), VlqB(v, 1), VlqB(v, 0)>>
    ELSE IF v > 16384 THEN <<VlqB(v, 2), VlqB(v, 1), VlqB(v, 0)>>
    ELSE IF v > 127 THEN <<VlqB(v, 1), VlqB(v, 0)>>
    ELSE <<VlqB(v, 0)>>

\* write.rs: TrackWriter::vlq, the bytes it writes
Vlq(v) ==
    IF v > 2097151 THEN <<VlqB(v, 3), VlqB(v, 2), VlqB(v, 1), VlqB(v, 0)>>
    ELSE IF v > 16383 THEN <<VlqB(v, 2), VlqB(v, 1), VlqB(v, 0)>>
    ELSE IF v > 127 THEN <<VlqB(v, 1), VlqB(v, 0)>>
    ELSE <<VlqB(v, 0)>>

\* VlqTooLongAt with the limit off by one (count > 4)
VlqTooLongLate(count) == count > 4

\* read.rs: read_vlq, count >= 4
VlqTooLongAt(count) == count >= 4

\* read.rs: read_vlq from offset pos, the loop with `value` and `count` so far
RECURSIVE ReadVlqLoop(_, _, _, _)
ReadVlqLoop(s, pos, value, count) ==
    IF pos >= Len(s)
    THEN [err |-> UnexpectedEof, value |-> 0, pos |-> Len(s)]
    ELSE LET c == s[pos + 1]
             \* (value << 7) | (c & 0x7f); value < 2^21 here as count < 4, so the u32 does not overflow
             v == (value * 128) + (c % 128)
         IN  IF c < 128
             THEN [err |-> Ok, value |-> v, pos |-> pos + 1]
             ELSE IF VlqTooLongAt(count + 1)
                  THEN [err |-> Err("VlqTooLong", c, NoByte, pos + 1),
                        value |-> 0, pos |-> pos + 1]
                  ELSE ReadVlqLoop(s, pos + 1, v, count + 1)

ReadVlq(s, pos) == ReadVlqLoop(s, pos, 0, 0)

\* read.rs: read_vlq_event, a VLQ length and that many bytes
ReadVlqEvent(s, pos) ==
    LET l == ReadVlq(s, pos)
    IN  IF l.err # Ok THEN [err |-> l.err, data |-> <<>>, pos |-> l.pos]
        ELSE IF l.pos + l.value > Len(s)
             THEN [err |-> UnexpectedEof, data |-> <<>>, pos |-> Len(s)]
             ELSE [err |-> Ok, data |-> Slice(s, l.pos, l.value), pos |-> l.pos + l.value]

\* read.rs: validate_u7, the error for the first byte >= 0x80 (Ok if none)
ValidateU7(offset, data) ==
    LET bad == {i \in 1..Len(data) : data[i] >= 128}
    IN  IF bad = {} THEN Ok
        ELSE LET i == CHOOSE j \in bad : \A k \in bad : j <= k
             IN  Err("InvalidByte", data[i], NoByte, (i - 1) + offset)

(***************************************************************************)
(* Data model (lib.rs).                                                    *)
(***************************************************************************)
Format == {"Single", "Multiple", "Sequential"}
\* `format as u16`: the discriminant of the enum
FormatAsU16(format) == IF format = "Single" THEN 0 ELSE IF format = "Multiple" THEN 1 ELSE 2

PPQN(d) == [tag |-> "PPQN", ppqn |-> d, fps |-> 0, tpf |-> 0]
SMPTE(fps, tpf) == [tag |-> "SMPTE", ppqn |-> 0, fps |-> fps, tpf |-> tpf]

\* a call made on the handler (or the writer call that stands for it)
Call(cb, delta, id, data) == [cb |-> cb, delta |-> delta, id |-> id, data |-> data]
NoHeader == [format |-> "None", num_tracks |-> 0, division |-> PPQN(0)]

(***************************************************************************)
(* Header codec.                                                           *)
(***************************************************************************)
\* DivisionWord without the negation of fps
DivisionWordUnsigned(division) ==
    IF division.tag = "PPQN" THEN division.ppqn
    ELSE (AsU16(AsI8(division.fps) * 256) + division.tpf) % U16

\* write.rs: the u16 written for a Division
DivisionWord(division) ==
    IF division.tag = "PPQN" THEN division.ppqn
    ELSE (AsU16((-AsI8(division.fps)) * 256) + division.tpf) % U16

\* read.rs: fps = -(division as i16 >> 8) as u8
SmpteFps(division) == AsU8(-(AsI16(division) \div 256))

\* read.rs: fps != 24 && fps != 25 && fps != 29 && fps != 30
BadFps(fps) == fps # 24 /\ fps # 25 /\ fps # 29 /\ fps # 30

\* read.rs: the Division decoded from the u16 (when the fps is accepted)
ReadDivision(division) ==
    IF AsI16(division) < 0 THEN SMPTE(SmpteFps(division), AsU8(division))
    ELSE PPQN(division)

(***************************************************************************)
(* Writer (write.rs).                                                      *)
(***************************************************************************)
\* write.rs: the length midi_event's debug_assert accepts for status data[0]
WriterMidiLen(status) == IF status >= 192 /\ status < 240 THEN 2 ELSE 3

\* data[1..] are all < 0x80
AllU7(data) == \A i \in 1..Len(data) : data[i] < 128

\* write.rs: raw_event, the bytes it writes
RawEventBytes(delta, data) == Vlq(delta) \o data

\* write.rs: midi_event suppresses the status byte
SameStatus(status, last) == status = last

\* write.rs: midi_event, the bytes it writes
MidiEventBytes(delta, data, last) ==
    IF SameStatus(data[1], last) THEN RawEventBytes(delta, Tail(data))
    ELSE RawEventBytes(delta, data)

\* write.rs: meta_event, escaped_event, the bytes they write
MetaEventBytes(delta, id, data) == Vlq(delta) \o <<MetaStatus, id>> \o Vlq(Len(data)) \o data
EscapedEventBytes(delta, data) == Vlq(delta) \o <<EscapeStatus>> \o Vlq(Len(data)) \o data

\* write.rs: sysex_event, the bytes it writes (data[0] is the status)
SysexEventBytes(delta, data) ==
    Vlq(delta) \o <<data[1]>> \o Vlq(Len(data) - 1) \o Tail(data)

\* write.rs: sysex_event, data.len() > 1 && data.last() == Some(&0xF7)
SysexTerminated(data) == Len(data) > 1 /\ data[Len(data)] = EscapeStatus

\* write.rs: sysex_event, the debug_asserts
SysexPre(data, cont) ==
    /\ data[1] \in {SysexStatus, EscapeStatus}
    /\ data[1] = SysexStatus => ~cont
    /\ data[1] = EscapeStatus => cont
    /\ IF SysexTerminated(data)
       THEN \A i \in 2..(Len(data) - 1) : data[i] < 128
       ELSE \A i \in 2..Len(data) : data[i] < 128

\* write.rs: write()
Write(format, division) ==
    /\ pc = "start"
    /\ stream' = WriteAt(stream, wpos,
                    MThd \o U32Be(HeaderLen) \o U16Be(FormatAsU16(format))
                         \o U16Be(0) \o U16Be(DivisionWord(division)))
    /\ track_count_pos' = wpos + 10
    /\ wpos' = wpos + 14
    /\ track_count' = 0
    /\ track_len_pos' = 0
    /\ w_last_status' = 0
    /\ w_sysex_continuation' = FALSE
    /\ wlog' = <<Call("header", 0, 0, <<>>)>>
    /\ wmeta' = [wmeta EXCEPT !.format = format, !.division = division,
                              !.status = Append(@, 0)]
    /\ pc' = "writer"
    /\ UNCHANGED <<rvars, vvars>>

\* write.rs: Writer::track
Track ==
    /\ pc = "writer"
    /\ track_count < MaxTracks
    /\ stream' = WriteAt(stream, wpos, MTrk \o U32Be(0))
    /\ track_len_pos' = wpos + 4
    /\ wpos' = wpos + 8
    /\ w_last_status' = 0
    /\ track_count' = (track_count + 1) % U16
    /\ wlog' = Append(wlog, Call("track", 0, 0, <<>>))
    /\ wmeta' = [wmeta EXCEPT !.starts = Append(@, wpos + 8),
                              !.ends = Append(@, wpos + 8),
                              !.cuts = @ \cup {wpos + 8},
                              !.status = Append(@, 0),
                              !.cont_at_track = Append(@, w_sysex_continuation)]
    /\ pc' = "track"
    /\ UNCHANGED <<track_count_pos, w_sysex_continuation, rvars, vvars>>

\* one event call on the TrackWriter: the bytes go to the stream, the call to the history
Emit(bytes, call) ==
    /\ stream' = WriteAt(stream, wpos, bytes)
    /\ wpos' = wpos + Len(bytes)
    /\ wlog' = Append(wlog, call)
    /\ wmeta' = [wmeta EXCEPT !.events = @ + 1,
                              !.cuts = @ \cup {wpos + Len(bytes)},
                              !.status = Append(@, IF call.cb = "sysex_event"
                                                   THEN bytes[Len(Vlq(call.delta)) + 1]
                                                   ELSE 0),
                              !.raw = @ \/ call.cb = "raw_event"]
    /\ UNCHANGED <<pc, track_count_pos, track_count, track_len_pos, rvars, vvars>>

\* write.rs: TrackWriter::midi_event
MidiEvent(delta, data) ==
    /\ pc = "track"
    /\ wmeta.events < MaxEvents
    /\ ~w_sysex_continuation
    /\ data[1] >= 128 /\ data[1] < 240
    /\ Len(data) = WriterMidiLen(data[1])
    /\ AllU7(Tail(data))
    /\ Emit(MidiEventBytes(delta, data, w_last_status), Call("midi_event", delta, 0, data))
    /\ w_last_status' = data[1]
    /\ UNCHANGED w_sysex_continuation

\* MetaEvent without `self.0.last_status = 0`
MetaEventKeepsStatus(delta, id, data) ==
    /\ pc = "track"
    /\ wmeta.events < MaxEvents
    /\ ~w_sysex_continuation
    /\ id < 128
    /\ Emit(MetaEventBytes(delta, id, data), Call("meta_event", delta, id, data))
    /\ UNCHANGED <<w_last_status, w_sysex_continuation>>

\* write.rs: TrackWriter::meta_event
MetaEvent(delta, id, data) ==
    /\ pc = "track"
    /\ wmeta.events < MaxEvents
    /\ ~w_sysex_continuation
    /\ id < 128
    /\ Emit(MetaEventBytes(delta, id, data), Call("meta_event", delta, id, data))
    /\ w_last_status' = 0
    /\ UNCHANGED w_sysex_continuation

\* write.rs: TrackWriter::escaped_event
EscapedEvent(delta, data) ==
    /\ pc = "track"
    /\ wmeta.events < MaxEvents
    /\ ~w_sysex_continuation
    /\ Emit(EscapedEventBytes(delta, data), Call("escaped_event", delta, 0, data))
    /\ w_last_status' = 0
    /\ UNCHANGED w_sysex_continuation

\* write.rs: TrackWriter::sysex_event
SysexEvent(delta, data) ==
    /\ pc = "track"
    /\ wmeta.events < MaxEvents
    /\ SysexPre(data, w_sysex_continuation)
    /\ w_sysex_continuation' =
         IF SysexTerminated(data) THEN FALSE
         ELSE IF data[1] = SysexStatus THEN TRUE ELSE w_sysex_continuation
    /\ w_last_status' = 0
    /\ Emit(SysexEventBytes(delta, data), Call("sysex_event", delta, 0, Tail(data)))

\* write.rs: TrackWriter::raw_event
RawEvent(delta, data) ==
    /\ pc = "track"
    /\ wmeta.events < MaxEvents
    /\ Emit(RawEventBytes(delta, data), Call("raw_event", delta, 0, data))
    /\ UNCHANGED <<w_last_status, w_sysex_continuation>>

\* TrackFinish without the seek forward after the length is patched
TrackFinishNoSeek ==
    /\ pc = "track"
    /\ LET track_len == wpos - (track_len_pos + 4)
       IN  IF track_len > 0
           THEN /\ stream' = WriteAt(stream, track_len_pos, U32Be(track_len))
                /\ wpos' = track_len_pos + 4
           ELSE UNCHANGED <<stream, wpos>>
    /\ pc' = "writer"
    /\ wmeta' = [wmeta EXCEPT !.ends[Len(wmeta.ends)] = wpos]
    /\ UNCHANGED <<track_count_pos, track_count, track_len_pos, w_last_status,
                   w_sysex_continuation, wlog, rvars, vvars>>

\* write.rs: TrackWriter::finish
TrackFinish ==
    /\ pc = "track"
    /\ LET track_len == wpos - (track_len_pos + 4)
       IN  IF track_len > 0
           THEN /\ stream' = WriteAt(stream, track_len_pos, U32Be(track_len))
                /\ wpos' = (track_len_pos + 4) + track_len
           ELSE UNCHANGED <<stream, wpos>>
    /\ pc' = "writer"
    /\ wmeta' = [wmeta EXCEPT !.ends[Len(wmeta.ends)] = wpos]
    /\ UNCHANGED <<track_count_pos, track_count, track_len_pos, w_last_status,
                   w_sysex_continuation, wlog, rvars, vvars>>

\* write.rs: n times Writer::track and TrackWriter::finish with no event between them
EmptyTracks(n) ==
    /\ pc = "writer"
    /\ track_count = 0
    /\ stream' = WriteAt(stream, wpos,
                         [i \in 1..(8 * n) |-> (MTrk \o U32Be(0))[((i - 1) % 8) + 1]])
    /\ track_len_pos' = (wpos + 8 * (n - 1)) + 4
    /\ wpos' = wpos + 8 * n
    /\ w_last_status' = 0
    /\ track_count' = (track_count + n) % U16
    /\ wlog' = wlog \o [i \in 1..n |-> Call("track", 0, 0, <<>>)]
    /\ wmeta' = [wmeta EXCEPT !.starts = @ \o [i \in 1..n |-> wpos + 8 * i],
                              !.ends = @ \o [i \in 1..n |-> wpos + 8 * i],
                              !.cuts = @ \cup {wpos + 8 * i : i \in 1..n},
                              !.status = @ \o [i \in 1..n |-> 0],
                              !.cont_at_track = @ \o [i \in 1..n |-> w_sysex_continuation]]
    /\ UNCHANGED <<pc, track_count_pos, w_sysex_continuation, rvars, vvars>>

\* Finish without the seek back to the end of the stream
FinishNoSeek ==
    /\ pc = "writer"
    /\ IF track_count > 0
       THEN /\ stream' = WriteAt(stream, track_count_pos, U16Be(track_count))
            /\ wpos' = track_count_pos + 2
       ELSE UNCHANGED <<stream, wpos>>
    /\ pc' = "written"
    /\ UNCHANGED <<track_count_pos, track_count, track_len_pos, w_last_status,
                   w_sysex_continuation, wlog, wmeta, rvars, vvars>>

\* write.rs: Writer::finish
Finish ==
    /\ pc = "writer"
    /\ IF track_count > 0
       THEN LET pos == wpos
            IN  /\ stream' = WriteAt(stream, track_count_pos, U16Be(track_count))
                /\ wpos' = pos
       ELSE UNCHANGED <<stream, wpos>>
    /\ pc' = "written"
    /\ UNCHANGED <<track_count_pos, track_count, track_len_pos, w_last_status,
                   w_sysex_continuation, wlog, wmeta, rvars, vvars>>

(***************************************************************************)
(* Reader (read.rs). read() runs from offset 0 of the stream; one action   *)
(* per chunk header and one per iteration of the event loop.               *)
(***************************************************************************)
\* read() returns Err(err) with the stream at pos
Fail(err, pos) ==
    /\ result' = err
    /\ rpos' = pos
    /\ pc' = "done"
    /\ UNCHANGED <<num_tracks, track_index, track_end, last_status,
                   sysex_continuation, callbacks, hdr>>

\* HandlerFails of a read() that drops the callback's result
HandlerFailsIgnored(n, at) == FALSE

\* read.rs: handler.callback(..)?, the n-th call on the handler returns Err
HandlerFails(n, at) == n = at

\* HeaderError with the header length checked before the magic
HeaderErrorLengthFirst(magic, header_len, format, division) ==
    IF header_len # HeaderLen THEN Err("BadHeaderLength", NoByte, NoByte, NoByte)
    ELSE IF magic # MThd THEN Err("BadMagic", NoByte, NoByte, NoByte)
    ELSE IF format \notin {0, 1, 2} THEN Err("BadFormat", NoByte, NoByte, NoByte)
    ELSE IF AsI16(division) < 0 /\ BadFps(SmpteFps(division))
         THEN Err("BadSmpteFps", SmpteFps(division), NoByte, NoByte)
    ELSE Ok

\* HeaderError without the check of format
HeaderErrorNoFormat(magic, header_len, format, division) ==
    IF magic # MThd THEN Err("BadMagic", NoByte, NoByte, NoByte)
    ELSE IF header_len # HeaderLen THEN Err("BadHeaderLength", NoByte, NoByte, NoByte)
    ELSE IF AsI16(division) < 0 /\ BadFps(SmpteFps(division))
         THEN Err("BadSmpteFps", SmpteFps(division), NoByte, NoByte)
    ELSE Ok

\* read.rs: the first header check that fails (Ok if none)
HeaderError(magic, header_len, format, division) ==
    IF magic # MThd THEN Err("BadMagic", NoByte, NoByte, NoByte)
    ELSE IF header_len # HeaderLen THEN Err("BadHeaderLength", NoByte, NoByte, NoByte)
    ELSE IF format \notin {0, 1, 2} THEN Err("BadFormat", NoByte, NoByte, NoByte)
    ELSE IF AsI16(division) < 0 /\ BadFps(SmpteFps(division))
         THEN Err("BadSmpteFps", SmpteFps(division), NoByte, NoByte)
    ELSE Ok

\* read.rs: match format { 0 => Single, 1 => Multiple, 2 => Sequential }
ReadFormat(format) ==
    IF format = 0 THEN "Single" ELSE IF format = 1 THEN "Multiple" ELSE "Sequential"

\* read.rs: the header chunk, up to the header() callback
ReadHeader ==
    /\ pc = "written"
    /\ IF Len(stream) < rpos + 14
       THEN Fail(UnexpectedEof, Len(stream))
       ELSE LET magic == Slice(stream, rpos, 4)
                header_len == FromBe(Slice(stream, rpos + 4, 4))
                format == FromBe(Slice(stream, rpos + 8, 2))
                n == FromBe(Slice(stream, rpos + 10, 2))
                division == FromBe(Slice(stream, rpos + 12, 2))
                e == HeaderError(magic, header_len, format, division)
            IN  IF e # Ok
                THEN Fail(e, rpos + 14)
                ELSE /\ hdr' = [format |-> ReadFormat(format), num_tracks |-> n,
                                division |-> ReadDivision(division)]
                     /\ callbacks' = Append(callbacks, Call("header", 0, 0, <<>>))
                     /\ num_tracks' = n
                     /\ track_index' = 0
                     /\ rpos' = rpos + 14
                     /\ IF HandlerFails(Len(callbacks) + 1, fail_at)
                        THEN result' = HandlerError /\ pc' = "done"
                        ELSE IF n = 0
                        THEN result' = Ok /\ pc' = "done"
                        ELSE result' = result /\ pc' = "rtrack"
                     /\ UNCHANGED <<track_end, last_status, sysex_continuation>>
    /\ UNCHANGED <<stream, wvars, vvars, fail_at>>

\* ReadTrackHeader with last_status and sysex_continuation declared outside the track loop
ReadTrackHeaderKeepsState ==
    /\ pc = "rtrack"
    /\ IF Len(stream) < rpos + 8
       THEN Fail(UnexpectedEof, Len(stream))
       ELSE LET magic == Slice(stream, rpos, 4)
                track_len == FromBe(Slice(stream, rpos + 4, 4))
            IN  IF magic # MTrk
                THEN Fail(Err("BadTrackMagic", NoByte, NoByte, NoByte), rpos + 8)
                ELSE /\ callbacks' = Append(callbacks, Call("track", 0, 0, <<>>))
                     /\ rpos' = rpos + 8
                     /\ IF HandlerFails(Len(callbacks) + 1, fail_at)
                        THEN /\ result' = HandlerError
                             /\ pc' = "done"
                             /\ UNCHANGED track_end
                        ELSE /\ track_end' = (rpos + 8) + track_len
                             /\ pc' = "revent"
                             /\ UNCHANGED result
                     /\ UNCHANGED <<num_tracks, track_index, hdr, sysex_continuation,
                                    last_status>>
    /\ UNCHANGED <<stream, wvars, vvars, fail_at>>

\* read.rs: a track chunk's header, up to the track() callback and the track's state
ReadTrackHeader ==
    /\ pc = "rtrack"
    /\ IF Len(stream) < rpos + 8
       THEN Fail(UnexpectedEof, Len(stream))
       ELSE LET magic == Slice(stream, rpos, 4)
                track_len == FromBe(Slice(stream, rpos + 4, 4))
            IN  IF magic # MTrk
                THEN Fail(Err("BadTrackMagic", NoByte, NoByte, NoByte), rpos + 8)
                ELSE /\ callbacks' = Append(callbacks, Call("track", 0, 0, <<>>))
                     /\ rpos' = rpos + 8
                     /\ IF HandlerFails(Len(callbacks) + 1, fail_at)
                        THEN /\ result' = HandlerError
                             /\ pc' = "done"
                             /\ UNCHANGED <<track_end, sysex_continuation, last_status>>
                        ELSE /\ track_end' = (rpos + 8) + track_len
                             /\ sysex_continuation' = FALSE
                             /\ last_status' = 0
                             /\ pc' = "revent"
                             /\ UNCHANGED result
                     /\ UNCHANGED <<num_tracks, track_index, hdr>>
    /\ UNCHANGED <<stream, wvars, vvars, fail_at>>

\* read.rs: (0x80..0xF0).contains(&status)
IsStatus(status) == status >= 128 /\ status < 240

\* NotContinuation that lets a meta event through
NotContinuationButMeta(status) == status # EscapeStatus /\ status # MetaStatus

\* read.rs: in continuation, status != 0xF7 is rejected
NotContinuation(status) == status # EscapeStatus

\* read.rs: data.last() == Some(&0xF7)
LastIsF7(data) == Len(data) > 0 /\ data[Len(data)] = EscapeStatus

\* read.rs: match last_status & 0xF0 { 0xC0 | 0xD0 => 2, _ => 3 }
ReaderMidiLen(status) == IF (status \div 16) \in {12, 13} THEN 2 ELSE 3

\* read.rs: the offsets handed to validate_u7
SysexValidateOffset(pos) == pos
MetaValidateOffset(current_pos) == current_pos + 1
MidiValidateOffset(current_pos, offset) == current_pos + (1 - offset)

\* AtTrackEnd that takes an overshoot for the end of the track
AtOrPastTrackEnd(current_pos, end) == current_pos >= end

\* read.rs: current_pos == track_end, current_pos > track_end
AtTrackEnd(current_pos, end) == current_pos = end
PastTrackEnd(current_pos, end) == current_pos > end

\* the outcome of decoding one event
Decoded(err, call, pos, ls, cont) ==
    [err |-> err, call |-> call, pos |-> pos, last_status |-> ls, sysex_continuation |-> cont]
Broken(err, pos) == Decoded(err, Call("none", 0, 0, <<>>), pos, 0, FALSE)

\* read.rs: the sysex packet in continuation mode (status 0xF7 already read, at p)
DecodeContinuation(s, delta, p, cont) ==
    LET e == ReadVlqEvent(s, p)
        v == ValidateU7(SysexValidateOffset(e.pos), e.data)
    IN  IF e.err # Ok THEN Broken(e.err, e.pos)
        ELSE IF v # Ok THEN Broken(v, e.pos)
        ELSE Decoded(Ok, Call("sysex_event", delta, 0, e.data), e.pos, 0,
                     IF LastIsF7(e.data) THEN FALSE ELSE cont)

\* read.rs: status == 0xF0
DecodeSysex(s, delta, p, cont) ==
    LET e == ReadVlqEvent(s, p)
        v == ValidateU7(SysexValidateOffset(e.pos), e.data)
    IN  IF e.err # Ok THEN Broken(e.err, e.pos)
        ELSE IF v # Ok THEN Broken(v, e.pos)
        ELSE Decoded(Ok, Call("sysex_event", delta, 0, e.data), e.pos, 0,
                     IF ~LastIsF7(e.data) THEN TRUE ELSE cont)

\* DecodeEscaped with the payload validated as a sysex payload is
DecodeEscapedValidated(s, delta, p, cont) ==
    LET e == ReadVlqEvent(s, p)
        v == ValidateU7(SysexValidateOffset(e.pos), e.data)
    IN  IF e.err # Ok THEN Broken(e.err, e.pos)
        ELSE IF v # Ok THEN Broken(v, e.pos)
        ELSE Decoded(Ok, Call("escaped_event", delta, 0, e.data), e.pos, 0, cont)

\* read.rs: status == 0xF7
DecodeEscaped(s, delta, p, cont) ==
    LET e == ReadVlqEvent(s, p)
    IN  IF e.err # Ok THEN Broken(e.err, e.pos)
        ELSE Decoded(Ok, Call("escaped_event", delta, 0, e.data), e.pos, 0, cont)

\* read.rs: status == 0xFF
DecodeMeta(s, current_pos, delta, p, cont) ==
    IF p >= Len(s) THEN Broken(UnexpectedEof, Len(s))
    ELSE LET meta_type == s[p + 1]
             v == ValidateU7(MetaValidateOffset(current_pos), <<meta_type>>)
             e == ReadVlqEvent(s, p + 1)
         IN  IF v # Ok THEN Broken(v, p + 1)
             ELSE IF e.err # Ok THEN Broken(e.err, e.pos)
             ELSE Decoded(Ok, Call("meta_event", delta, meta_type, e.data), e.pos, 0, cont)

\* read.rs: last_status != 0, a channel message with explicit or running status
DecodeMidi(s, current_pos, delta, status, p, ls, running_status, cont) ==
    LET length == ReaderMidiLen(ls)
        offset == IF running_status THEN 1 ELSE 0
        more == length - (1 + offset)
        data == <<ls>> \o (IF running_status THEN <<status>> ELSE <<>>) \o
                (IF p + more > Len(s) THEN <<>> ELSE Slice(s, p, more))
        v == ValidateU7(MidiValidateOffset(current_pos, offset), Tail(data))
    IN  IF more > 0 /\ p + more > Len(s) THEN Broken(UnexpectedEof, Len(s))
        ELSE IF v # Ok THEN Broken(v, p + more)
        ELSE Decoded(Ok, Call("midi_event", delta, 0, data), p + more, ls, cont)

\* read.rs: one iteration of the event loop, below the track-end checks
DecodeEvent(s, current_pos, ls0, cont, track) ==
    LET d == ReadVlq(s, current_pos)
    IN  IF d.err # Ok THEN Broken(d.err, d.pos)
        ELSE IF d.pos >= Len(s) THEN Broken(UnexpectedEof, Len(s))
        ELSE LET status == s[d.pos + 1]
                 p == d.pos + 1
                 ls == IF IsStatus(status) THEN status ELSE ls0
                 running_status == ~IsStatus(status)
             IN  IF cont
                 THEN IF NotContinuation(status)
                      THEN Broken(Err("UnexpectedContinuation", status, track, p), p)
                      ELSE DecodeContinuation(s, d.value, p, cont)
                 ELSE IF status = SysexStatus THEN DecodeSysex(s, d.value, p, cont)
                 ELSE IF status = EscapeStatus THEN DecodeEscaped(s, d.value, p, cont)
                 ELSE IF status = MetaStatus THEN DecodeMeta(s, current_pos, d.value, p, cont)
                 ELSE IF ls # 0
                      THEN DecodeMidi(s, current_pos, d.value, status, p, ls, running_status, cont)
                 ELSE Broken(Err("NoRunningStatus", status, track, p), p)

\* read.rs: the event loop of one track as a whole, from pos with the calls so far
\* (with a handler that returns Ok from every call)
RECURSIVE RunEvents(_, _, _, _, _, _, _)
RunEvents(s, pos, end, ls, cont, track, calls) ==
    IF AtTrackEnd(pos, end) THEN [callbacks |-> calls, err |-> Ok, pos |-> pos]
    ELSE IF PastTrackEnd(pos, end)
         THEN [callbacks |-> calls, err |-> Err("TrackOverrun", NoByte, track, pos), pos |-> pos]
    ELSE LET e == DecodeEvent(s, pos, ls, cont, track)
         IN  IF e.err # Ok THEN [callbacks |-> calls, err |-> e.err, pos |-> e.pos]
             ELSE RunEvents(s, e.pos, end, e.last_status, e.sysex_continuation, track,
                            Append(calls, e.call))

\* read.rs: one iteration of the event loop of the current track
ReadEvent ==
    /\ pc = "revent"
    /\ LET current_pos == rpos
       IN  IF AtTrackEnd(current_pos, track_end)
           THEN /\ IF track_index + 1 < num_tracks
                   THEN track_index' = track_index + 1 /\ pc' = "rtrack" /\ result' = result
                   ELSE track_index' = track_index /\ pc' = "done" /\ result' = Ok
                /\ UNCHANGED <<rpos, num_tracks, track_end, last_status,
                               sysex_continuation, callbacks, hdr>>
           ELSE IF PastTrackEnd(current_pos, track_end)
           THEN Fail(Err("TrackOverrun", NoByte, track_index, current_pos), current_pos)
           ELSE LET e == DecodeEvent(stream, current_pos, last_status,
                                     sysex_continuation, track_index)
                IN  IF e.err # Ok
                    THEN Fail(e.err, e.pos)
                    ELSE /\ callbacks' = Append(callbacks, e.call)
                         /\ rpos' = e.pos
                         /\ last_status' = e.last_status
                         /\ sysex_continuation' = e.sysex_continuation
                         /\ IF HandlerFails(Len(callbacks) + 1, fail_at)
                            THEN result' = HandlerError /\ pc' = "done"
                            ELSE UNCHANGED <<pc, result>>
                         /\ UNCHANGED <<num_tracks, track_index, track_end, hdr>>
    /\ UNCHANGED <<stream, wvars, vvars, fail_at>>

(***************************************************************************)
(* The stream handed to read() need not come from this writer: a track     *)
(* chunk may declare any length.                                           *)
(***************************************************************************)
\* read.rs: track_len is whatever the chunk declares; here n bytes less than the events written
PatchTrackLen(t, n) ==
    /\ pc = "written"
    /\ ~wmeta.patched
    /\ t \in 1..Len(wmeta.starts)
    /\ n \in 1..(wmeta.ends[t] - wmeta.starts[t])
    /\ n <= MaxCut
    /\ stream' = WriteAt(stream, wmeta.starts[t] - 4,
                         U32Be((wmeta.ends[t] - wmeta.starts[t]) - n))
    /\ wmeta' = [wmeta EXCEPT !.patched = TRUE]
    /\ UNCHANGED <<pc, wpos, track_count_pos, track_count, track_len_pos, w_last_status,
                   w_sysex_continuation, wlog, rvars, vvars>>

\* read.rs: the header chunk is whatever the stream holds; here one field is replaced
PatchHeader(at, bytes) ==
    /\ pc = "written"
    /\ ~wmeta.patched
    /\ stream' = WriteAt(stream, at, bytes)
    /\ wmeta' = [wmeta EXCEPT !.patched = TRUE]
    /\ UNCHANGED <<pc, wpos, track_count_pos, track_count, track_len_pos, w_last_status,
                   w_sysex_continuation, wlog, rvars, vvars>>

\* read.rs: the stream may end anywhere; here it holds only its first n bytes
Truncate(n) ==
    /\ pc = "written"
    /\ n < Len(stream)
    /\ stream' = SubSeq(stream, 1, n)
    /\ wmeta' = [wmeta EXCEPT !.patched = TRUE]
    /\ UNCHANGED <<pc, wpos, track_count_pos, track_count, track_len_pos, w_last_status,
                   w_sysex_continuation, wlog, rvars, vvars>>

\* read.rs: the handler is the caller's; here its k-th call returns Err
HandlerFailsAt(k) ==
    /\ pc = "written"
    /\ fail_at = 0
    /\ fail_at' = k
    /\ UNCHANGED <<pc, stream, wvars, vvars, rpos, num_tracks, track_index, track_end,
                   last_status, sysex_continuation, callbacks, hdr, result>>

(***************************************************************************)
(* The VLQ codec on its own: a value written by TrackWriter::vlq, or any   *)
(* bytes, then read_vlq from offset 0.                                     *)
(***************************************************************************)
VlqWrite(v) ==
    /\ pc = "start"
    /\ v <= VlqMax
    /\ stream' = WriteAt(stream, wpos, Vlq(v))
    /\ wpos' = wpos + Len(Vlq(v))
    /\ vlq_in' = v
    /\ pc' = "vlq"
    /\ UNCHANGED <<track_count_pos, track_count, track_len_pos, w_last_status,
                   w_sysex_continuation, wlog, wmeta, rvars, vlq_out>>

VlqFeed(bytes) ==
    /\ pc = "start"
    /\ stream' = bytes
    /\ pc' = "vlq"
    /\ UNCHANGED <<wvars, rvars, vvars>>

VlqRead ==
    /\ pc = "vlq"
    /\ vlq_out' = ReadVlq(stream, 0)
    /\ pc' = "vlqdone"
    /\ UNCHANGED <<stream, wvars, rvars, vlq_in>>

(***************************************************************************)
(* Inputs.                                                                 *)
(***************************************************************************)
HeaderInputs == {<<"Multiple", PPQN(96)>>}

\* <<delta, data>>: note on, program change, pitch bend
MidiInputs == {<<0, <<144, 64, 64>>>>, <<0, <<193, 64>>>>, <<0, <<224, 64>>>>}
\* <<delta, id, data>>: a text event 200 ticks on, its body not 7-bit
MetaInputs == {<<200, 1, <<255>>>>}
\* <<delta, data>>
EscapedInputs == {<<0, <<144>>>>}
\* <<delta, data>>, data[0] the status: open, complete, continued, closed
SysexInputs == {<<0, <<240, 65>>>>, <<0, <<240, 65, 247>>>>,
                <<0, <<247, 66>>>>, <<0, <<247, 66, 247>>>>}

\* <<delta, data>> for raw_event: packets a reader may meet
RawInputs == {<<0, <<144, 64, 64>>>>,        \* note on
              <<0, <<64, 64>>>>,             \* data bytes alone (running status)
              <<0, <<240, 1, 65>>>>,         \* sysex, left open
              <<0, <<247, 1, 66>>>>,         \* 0xF7 packet, 7-bit payload, not closed
              <<0, <<247, 2, 66, 247>>>>,    \* 0xF7 packet closed by 0xF7
              <<0, <<247, 1, 144>>>>,        \* 0xF7 packet, payload not 7-bit
              <<200, <<255, 47, 0>>>>}       \* meta end-of-track, 200 ticks on

\* <<delta, data>> for raw_event: packets with a byte that is not 7-bit where one is required
ByteInputs == {<<0, <<144, 64, 64>>>>,       \* note on (well-formed)
               <<0, <<240, 1, 65>>>>,        \* sysex, left open (well-formed)
               <<200, <<144, 64, 128>>>>,    \* note on, second data byte, 200 ticks on
               <<0, <<64, 128>>>>,           \* running status, second data byte
               <<0, <<255, 128, 0>>>>,       \* meta, the type id
               <<0, <<240, 2, 65, 128>>>>,   \* sysex, second payload byte
               <<200, <<247, 1, 144>>>>}     \* 0xF7 packet, first payload byte, 200 ticks on

\* header fields a stream may hold instead: <<offset, bytes>>
HeaderPatches == {<<0, MTrk>>, <<4, U32Be(7)>>, <<8, U16Be(3)>>,
                  <<10, U16Be(0)>>, <<10, U16Be(1)>>, <<10, U16Be(2)>>,
                  <<12, U16Be(32768)>>, <<12, U16Be(59176)>>, <<12, U16Be(65535)>>,
                  <<12, U16Be(480)>>}

\* Divisions handed to write()
DivisionInputs ==
    {PPQN(d) : d \in {0, 96, 480, 32767, 32768, 59176, 65535}} \cup
    {SMPTE(fps, tpf) : fps \in {24, 25, 29, 30}, tpf \in {0, 40, 255}}

\* the VLQ length thresholds and the values around them
VlqInputs ==
    {v \in UNION {(t - VlqSpread)..(t + VlqSpread) :
                    t \in {0, 128, 16384, 2097152, 268435455}} : v >= 0 /\ v <= VlqMax}
    \cup {200, 480, 65535, 1000000, 178956970}
\* byte strings handed to read_vlq
VlqBytes == {0, 127, 128, 129, 255}
VlqFeeds == UNION {[1..n -> VlqBytes] : n \in 0..5}

Init ==
    /\ pc = "start"
    /\ stream = <<>>
    /\ wpos = 0
    /\ track_count_pos = 0
    /\ track_count = 0
    /\ track_len_pos = 0
    /\ w_last_status = 0
    /\ w_sysex_continuation = FALSE
    /\ wlog = <<>>
    /\ wmeta = [format |-> "None", division |-> PPQN(0), starts |-> <<>>, ends |-> <<>>,
                cuts |-> {}, cont_at_track |-> <<>>, events |-> 0, status |-> <<>>,
                raw |-> FALSE, patched |-> FALSE]
    /\ rpos = 0
    /\ num_tracks = 0
    /\ track_index = 0
    /\ track_end = 0
    /\ last_status = 0
    /\ sysex_continuation = FALSE
    /\ callbacks = <<>>
    /\ hdr = NoHeader
    /\ result = Running
    /\ fail_at = 0
    /\ vlq_in = -1
    /\ vlq_out = [err |-> Running, value |-> 0, pos |-> 0]

\* the writer's calls, with arguments that meet their preconditions, then read()
Next ==
    \/ \E h \in HeaderInputs : Write(h[1], h[2])
    \/ Track
    \/ \E m \in MidiInputs : MidiEvent(m[1], m[2])
    \/ \E m \in MetaInputs : MetaEvent(m[1], m[2], m[3])
    \/ \E m \in EscapedInputs : EscapedEvent(m[1], m[2])
    \/ \E m \in SysexInputs : SysexEvent(m[1], m[2])
    \/ TrackFinish
    \/ Finish
    \/ ReadHeader
    \/ ReadTrackHeader
    \/ ReadEvent

Spec == Init /\ [][Next]_vars

\* tracks of any packets, then read()
NextRead ==
    \/ \E h \in HeaderInputs : Write(h[1], h[2])
    \/ Track
    \/ \E m \in RawInputs : RawEvent(m[1], m[2])
    \/ TrackFinish
    \/ Finish
    \/ ReadHeader
    \/ ReadTrackHeader
    \/ ReadEvent

SpecRead == Init /\ [][NextRead]_vars

\* tracks of packets with bytes that are not 7-bit, then read()
NextBytes ==
    \/ \E h \in HeaderInputs : Write(h[1], h[2])
    \/ Track
    \/ \E m \in ByteInputs : RawEvent(m[1], m[2])
    \/ TrackFinish
    \/ Finish
    \/ ReadHeader
    \/ ReadTrackHeader
    \/ ReadEvent

SpecBytes == Init /\ [][NextBytes]_vars

\* tracks of channel and meta events whose chunks declare too short a length, then read()
NextTrack ==
    \/ \E h \in HeaderInputs : Write(h[1], h[2])
    \/ Track
    \/ \E m \in MidiInputs : MidiEvent(m[1], m[2])
    \/ \E m \in MetaInputs : MetaEvent(m[1], m[2], m[3])
    \/ TrackFinish
    \/ Finish
    \/ \E t \in 1..MaxTracks, n \in 1..MaxCut : PatchTrackLen(t, n)
    \/ ReadHeader
    \/ ReadTrackHeader
    \/ ReadEvent

SpecTrack == Init /\ [][NextTrack]_vars

\* any header, written or crafted, over tracks of meta events, then read()
NextHeader ==
    \/ \E f \in Format, d \in DivisionInputs : Write(f, d)
    \/ Track
    \/ \E m \in MetaInputs : MetaEvent(m[1], m[2], m[3])
    \/ TrackFinish
    \/ Finish
    \/ \E h \in HeaderPatches : PatchHeader(h[1], h[2])
    \/ ReadHeader
    \/ ReadTrackHeader
    \/ ReadEvent

SpecHeader == Init /\ [][NextHeader]_vars

\* the VLQ codec alone
NextVlq ==
    \/ \E v \in VlqInputs : VlqWrite(v)
    \/ \E b \in VlqFeeds : VlqFeed(b)
    \/ VlqRead

SpecVlq == Init /\ [][NextVlq]_vars

\* numbers of tracks around the byte boundary of the count, and the largest
CountInputs == {255, 256, 65535}

\* the writer alone, with tracks of channel and meta events or many empty tracks
NextCount ==
    \/ \E h \in HeaderInputs : Write(h[1], h[2])
    \/ \E n \in CountInputs : EmptyTracks(n)
    \/ Track
    \/ \E m \in MidiInputs : MidiEvent(m[1], m[2])
    \/ \E m \in MetaInputs : MetaEvent(m[1], m[2], m[3])
    \/ TrackFinish
    \/ Finish

SpecCount == Init /\ [][NextCount]_vars

\* header chunks a stream may hold: each field as write() leaves it or not acceptable
\* (the division: PPQN 96, SMPTE 25 fps, a sign bit with 128 or 1 for the frame rate)
HeaderChunks ==
    {m \o U32Be(l) \o U16Be(f) \o U16Be(1) \o U16Be(d) :
        m \in {MThd, MTrk}, l \in {6, 7}, f \in {1, 3}, d \in {96, 59176, 32768, 65535}}
\* lengths at which a stream may end within its header chunk
HeaderCuts == {4, 8, 13}

\* any header chunk, whole or cut short, over tracks of meta events, then read()
NextValidate ==
    \/ \E h \in HeaderInputs : Write(h[1], h[2])
    \/ Track
    \/ \E m \in MetaInputs : MetaEvent(m[1], m[2], m[3])
    \/ TrackFinish
    \/ Finish
    \/ \E h \in HeaderChunks : PatchHeader(0, h)
    \/ \E n \in HeaderCuts : Truncate(n)
    \/ ReadHeader
    \/ ReadTrackHeader
    \/ ReadEvent

SpecValidate == Init /\ [][NextValidate]_vars

\* <<delta, data>>: one note on; one sysex packet, left open
NoteInputs == {<<0, <<144, 64, 64>>>>}
OpenSysexInputs == {<<0, <<240, 65>>>>}

\* tracks of events of every kind, then read() with a handler that may fail on one call
NextObserver ==
    \/ \E h \in HeaderInputs : Write(h[1], h[2])
    \/ Track
    \/ \E m \in NoteInputs : MidiEvent(m[1], m[2])
    \/ \E m \in MetaInputs : MetaEvent(m[1], m[2], m[3])
    \/ \E m \in EscapedInputs : EscapedEvent(m[1], m[2])
    \/ \E m \in OpenSysexInputs : SysexEvent(m[1], m[2])
    \/ TrackFinish
    \/ Finish
    \/ \E k \in 1..(1 + MaxTracks + MaxEvents) : HandlerFailsAt(k)
    \/ ReadHeader
    \/ ReadTrackHeader
    \/ ReadEvent

SpecObserver == Init /\ [][NextObserver]_vars

\* <<delta, data>> for raw_event: data bytes alone, an event that relies on running status
DataInputs == {<<0, <<64, 64>>>>}

\* tracks of events of every kind and of data bytes written as they are, then read()
NextStatus ==
    \/ \E h \in HeaderInputs : Write(h[1], h[2])
    \/ Track
    \/ \E m \in NoteInputs : MidiEvent(m[1], m[2])
    \/ \E m \in MetaInputs : MetaEvent(m[1], m[2], m[3])
    \/ \E m \in EscapedInputs : EscapedEvent(m[1], m[2])
    \/ \E m \in OpenSysexInputs : SysexEvent(m[1], m[2])
    \/ \E m \in DataInputs : RawEvent(m[1], m[2])
    \/ TrackFinish
    \/ Finish
    \/ ReadHeader
    \/ ReadTrackHeader
    \/ ReadEvent

SpecStatus == Init /\ [][NextStatus]_vars

\* status bytes: one of each kind of channel message, and the last below 0xF0
StatusInputs == {128, 144, 160, 176, 192, 208, 224, 239}
\* <<delta, data>>: for each status a message of 2 and a message of 3 bytes
LengthInputs == {<<0, <<s, 64>>>> : s \in StatusInputs} \cup
                {<<0, <<s, 64, 64>>>> : s \in StatusInputs}

\* tracks of the channel messages midi_event accepts, then read()
NextLength ==
    \/ \E h \in HeaderInputs : Write(h[1], h[2])
    \/ Track
    \/ \E m \in LengthInputs : MidiEvent(m[1], m[2])
    \/ TrackFinish
    \/ Finish
    \/ ReadHeader
    \/ ReadTrackHeader
    \/ ReadEvent

SpecLength == Init /\ [][NextLength]_vars

(***************************************************************************)
(* Claims.                                                                 *)
(***************************************************************************)
\* the number of bytes a VLQ of value v takes, by the thresholds of the format
VlqLenOf(v) == IF v <= 127 THEN 1 ELSE IF v <= 16383 THEN 2 ELSE IF v <= 2097151 THEN 3 ELSE 4

\* the value of the VLQ bytes b[1..k], computed from the format's definition
RECURSIVE VlqValueOf(_, _)
VlqValueOf(b, k) == IF k = 0 THEN 0 ELSE VlqValueOf(b, k - 1) * 128 + (b[k] % 128)

\* the offsets (1-based) of the bytes of b with the high bit clear
ClearAt(b) == {i \in 1..Len(b) : b[i] < 128}

\* C6: for every v in 0..0x0FFFFFFF, TrackWriter::vlq(v) writes 1, 2, 3 or 4 bytes by the
\* thresholds 0x7F, 0x3FFF, 0x1FFFFF, the high bit set on every byte but the last, and
\* read_vlq on those bytes returns v and consumes exactly those bytes.
C6_VlqRoundTrip ==
    (pc = "vlqdone" /\ vlq_in >= 0) =>
        /\ Len(stream) = VlqLenOf(vlq_in)
        /\ \A i \in 1..Len(stream) : (stream[i] >= 128) <=> (i < Len(stream))
        /\ vlq_out.err = Ok
        /\ vlq_out.value = vlq_in
        /\ vlq_out.pos = Len(stream)

\* C6 witness: the largest value, written in 4 bytes, has been read back
C6_Witness ==
    pc = "vlqdone" /\ vlq_in = VlqMax /\ Len(stream) = 4 /\ vlq_out.value = VlqMax

\* C7: read_vlq accepts every encoding of 1 to 4 bytes (the last with the high bit clear),
\* fails with VLQ-too-long exactly when the first four bytes all have the high bit set,
\* never consumes more than 4 bytes and never returns a value above 0x0FFFFFFF.
C7_VlqDecodeBound ==
    pc = "vlqdone" =>
        LET k == IF ClearAt(stream) = {} THEN 0
                 ELSE CHOOSE i \in ClearAt(stream) : \A j \in ClearAt(stream) : i <= j
            four == Len(stream) >= 4 /\ \A i \in 1..4 : stream[i] >= 128
        IN  /\ (k >= 1 /\ k <= 4) =>
                 /\ vlq_out.err = Ok
                 /\ vlq_out.pos = k
                 /\ vlq_out.value = VlqValueOf(stream, k)
            /\ (vlq_out.err.kind = "VlqTooLong") <=> four
            /\ four => vlq_out.pos = 4 /\ vlq_out.err.byte = stream[4]
            /\ vlq_out.pos <= 4
            /\ vlq_out.value <= VlqMax

\* C7 witness: five bytes with the high bit set on the first four were refused
C7_Witness ==
    /\ pc = "vlqdone"
    /\ Len(stream) = 5
    /\ vlq_out.err.kind = "VlqTooLong"
    /\ vlq_out.pos = 4

\* C8 as claimed: every Division of the data model, PPQN(d) for any 16-bit d included, and
\* every Format written by write() reach the header callback of read() unchanged.
C8_AnyDivisionRoundTrip ==
    (pc \in {"rtrack", "revent", "done"} /\ ~wmeta.patched) =>
        (hdr.format = wmeta.format /\ hdr.division = wmeta.division)

\* C8 amended: PPQN(d) with d <= 0x7FFF, SMPTE{fps, tpf} with fps in {24, 25, 29, 30} and
\* any 8-bit tpf, and every Format written by write() are decoded by read() without a
\* header error and reach the header callback unchanged.
C8_DivisionRoundTrip ==
    (/\ pc \in {"rtrack", "revent", "done"}
     /\ ~wmeta.patched
     /\ wmeta.division.tag = "PPQN" => wmeta.division.ppqn <= 32767) =>
        /\ Len(callbacks) >= 1
        /\ result.kind \notin {"BadMagic", "BadHeaderLength", "BadFormat", "BadSmpteFps"}
        /\ hdr.format = wmeta.format
        /\ hdr.division = wmeta.division

\* C8 witness: SMPTE{fps: 25, tpf: 40} was written and came back
C8_Witness ==
    /\ ~wmeta.patched
    /\ wmeta.division = SMPTE(25, 40)
    /\ hdr.division = SMPTE(25, 40)
    /\ hdr.format = wmeta.format

EventCalls == {"midi_event", "meta_event", "escaped_event", "sysex_event"}
CountCalls(cb) == Cardinality({i \in 1..Len(callbacks) : callbacks[i].cb = cb})

\* the header chunk of the stream passes the four checks, stated from the file format
HeaderAccepted ==
    /\ Len(stream) >= 14
    /\ Slice(stream, 0, 4) = <<77, 84, 104, 100>>
    /\ Slice(stream, 4, 4) = <<0, 0, 0, 6>>
    /\ stream[9] = 0 /\ stream[10] \in {0, 1, 2}
    /\ stream[13] < 128 \/ (256 - stream[13]) \in {24, 25, 29, 30}

DeclaredTracks == stream[11] * 256 + stream[12]

C10_State ==
    /\ \A i \in 1..Len(callbacks) : (callbacks[i].cb = "header") <=> (i = 1)
    /\ Len(callbacks) >= 1 => HeaderAccepted
    /\ (pc \in {"rtrack", "revent"} \/ result = Ok) => Len(callbacks) >= 1
    /\ pc = "rtrack" => CountCalls("track") = track_index
    /\ pc = "revent" => CountCalls("track") = track_index + 1
    /\ Len(callbacks) >= 1 => CountCalls("track") <= DeclaredTracks
    /\ result = Ok => CountCalls("track") = DeclaredTracks

C10_Step ==
    /\ \/ callbacks' = callbacks
       \/ /\ Len(callbacks') = Len(callbacks) + 1
          /\ SubSeq(callbacks', 1, Len(callbacks)) = callbacks
    /\ callbacks' # callbacks =>
         LET cb == callbacks'[Len(callbacks')].cb
         IN  /\ cb = "header" => (pc = "written" /\ callbacks = <<>>)
             /\ cb = "track" => (pc = "rtrack" /\ pc' = "revent"
                                 /\ Slice(stream, rpos, 4) = <<77, 84, 114, 107>>)
             /\ cb \in EventCalls => (pc = "revent" /\ rpos' > rpos
                                      /\ CountCalls("track") = track_index + 1)
    /\ rpos' >= rpos

\* C10: header() is invoked once, first, and only after magic, header length, format and
\* SMPTE fps are accepted; track() once per track chunk, after its "MTrk" magic and before
\* the events of the track; event callbacks follow the stream; a successful read() has
\* invoked track() as many times as the header declares.
C10_CallbackOrdering == [](C10_State) /\ [][C10_Step]_vars

\* C10 witness: a read() of two tracks with events has succeeded
C10_Witness ==
    /\ result = Ok
    /\ CountCalls("track") = 2
    /\ CountCalls("meta_event") >= 2
    /\ callbacks[Len(callbacks)].cb = "meta_event"

\* C1: every header and tracks of events that meet the writer's preconditions, written with
\* write(), track(), the event calls and finish(), are read back by read() without error
\* as the same header and the same calls, in the same order and the same tracks.
C1_WriteReadRoundTrip ==
    pc = "done" =>
        /\ result = Ok
        /\ callbacks = wlog
        /\ hdr = [format |-> wmeta.format, num_tracks |-> track_count,
                  division |-> wmeta.division]

\* the events of a stream of one track, as written
TrackEvents == SubSeq(wlog, 3, Len(wlog))

\* the bytes of midi events written without running status: delta, status, data each time
RECURSIVE PlainBody(_)
PlainBody(ev) ==
    IF ev = <<>> THEN <<>>
    ELSE RawEventBytes(ev[1].delta, ev[1].data) \o PlainBody(Tail(ev))

\* a stream of one track holding `body`
OneTrack(body) == Slice(stream, 0, 14) \o <<77, 84, 114, 107>> \o U32Be(Len(body)) \o body

\* the events whose status byte the writer leaves out
Compressed(ev) == {i \in 2..Len(ev) : ev[i].data[1] = ev[i - 1].data[1]}

\* C2: in a track of midi events, each event whose status equals the one before is written
\* one byte shorter (no status byte), and read() decodes the compressed stream and the
\* stream with every status byte written into the same midi_event callbacks, which are
\* the events written, each with its full status byte.
C2_RunningStatus ==
    (/\ pc = "written"
     /\ track_count = 1
     /\ \A i \in 1..Len(TrackEvents) : TrackEvents[i].cb = "midi_event"
     /\ Compressed(TrackEvents) # {}) =>
        LET plain == PlainBody(TrackEvents)
            rc == RunEvents(stream, 22, Len(stream), 0, FALSE, 0, <<>>)
            rp == RunEvents(OneTrack(plain), 22, 22 + Len(plain), 0, FALSE, 0, <<>>)
        IN  /\ Len(stream) - 22 = Len(plain) - Cardinality(Compressed(TrackEvents))
            /\ rc.callbacks = rp.callbacks
            /\ rc.callbacks = TrackEvents

\* C3: a 0xF0 packet whose payload does not end in 0xF7, followed at once by a 0xF7 packet
\* of 7-bit payload bytes (closed by 0xF7 or not), is delivered by read() as two
\* sysex_event callbacks in stream order, and the track goes on.
C3_SplitSysex ==
    pc = "done" =>
        \A i \in 1..(Len(wlog) - 1) :
            (/\ wmeta.status[i] = SysexStatus
             /\ ~LastIsF7(wlog[i].data)
             /\ wmeta.status[i + 1] = EscapeStatus
             /\ Len(callbacks) >= i
             /\ SubSeq(callbacks, 1, i) = SubSeq(wlog, 1, i)) =>
                /\ Len(callbacks) >= i + 1
                /\ callbacks[i + 1] = wlog[i + 1]
                /\ result.kind # "InvalidByte"

\* the status byte of the event at the reader's cursor (NoByte if none can be read)
StatusAtCursor ==
    LET d == ReadVlq(stream, rpos)
    IN  IF d.err = Ok /\ d.pos < Len(stream) THEN stream[d.pos + 1] ELSE NoByte

C4_Step ==
    (pc = "revent" /\ rpos < track_end /\ sysex_continuation) =>
        /\ (StatusAtCursor # NoByte /\ StatusAtCursor # 247) =>
              /\ result'.kind = "UnexpectedContinuation"
              /\ result'.byte = StatusAtCursor
              /\ result'.track = track_index
              /\ callbacks' = callbacks
        /\ (callbacks' # callbacks /\ pc' = "revent") =>
              \/ sysex_continuation'
              \/ LET c == callbacks'[Len(callbacks')]
                 IN  /\ StatusAtCursor = 247
                     /\ c.cb = "sysex_event"
                     /\ c.data # <<>>
                     /\ c.data[Len(c.data)] = 247

\* C4: while sysex_continuation is set the only status byte accepted is 0xF7 - any other
\* makes read() fail with UnexpectedContinuation and no callback - and within a track the
\* flag stays set after every decoded event but a 0xF7 packet whose payload ends in 0xF7.
C4_ContinuationOnlyF7 == [][C4_Step]_vars

\* C4 witness: after an open sysex and a 0xF7 packet that leaves it open, a meta event was refused
C4_Witness ==
    /\ result.kind = "UnexpectedContinuation"
    /\ result.byte = 255
    /\ Len(callbacks) = 4
    /\ callbacks[3].cb = "sysex_event"
    /\ callbacks[4].cb = "sysex_event"

\* the offset of the first byte >= 0x80 of s at or after offset from
FirstHighFrom(s, from) ==
    LET high == {o \in from..(Len(s) - 1) : s[o + 1] >= 128}
    IN  IF high = {} THEN NoByte ELSE CHOOSE o \in high : \A q \in high : o <= q

C9_Step ==
    (pc = "revent" /\ result'.kind = "InvalidByte") =>
        LET d == ReadVlq(stream, rpos)
        IN  result'.offset = FirstHighFrom(stream, d.pos + 1)

\* C9: whenever read() rejects a sysex payload byte, a meta type id or a midi data byte for
\* its high bit, the offset in the error is the stream offset of that byte (in the packets
\* read here the first byte >= 0x80 after the status byte).
C9_ErrorOffsetExact == [][C9_Step]_vars

\* the length a track chunk declares, and the bytes of the events written to it
DeclaredLen(t) == FromBe(Slice(stream, wmeta.starts[t] - 4, 4))
WrittenLen(t) == wmeta.ends[t] - wmeta.starts[t]
\* the tracks read() has entered
Entered == 1..CountCalls("track")
\* no pitch-bend events: the writer and the reader agree on the length of every event
NoPitchBend == \A i \in 1..Len(wlog) : wlog[i].cb = "midi_event" => wlog[i].data[1] < 224

\* C5 as claimed: a track whose declared length is smaller than the bytes of its events
\* makes read() fail with TrackOverrun for that track.
C5_UndershootOverruns ==
    (pc = "done" /\ NoPitchBend) =>
        \A t \in Entered :
            DeclaredLen(t) < WrittenLen(t) =>
                (result.kind = "TrackOverrun" /\ result.track = t - 1)

C5_Step ==
    pc = "revent" =>
        /\ rpos > track_end =>
              /\ result' = Err("TrackOverrun", NoByte, track_index, rpos)
              /\ callbacks' = callbacks
              /\ pc' = "done"
        /\ rpos = track_end =>
              /\ rpos' = rpos
              /\ callbacks' = callbacks
              /\ result'.kind \in {"Running", "Ok"}
              /\ pc' \in {"rtrack", "done"}
        /\ result'.kind = "TrackOverrun" => rpos > track_end

C5_State ==
    /\ result.kind = "TrackOverrun" =>
          /\ result.offset > track_end
          /\ result.offset = rpos
          /\ result.track = track_index
    /\ (NoPitchBend /\ result.kind = "TrackOverrun") =>
          /\ track_end \notin wmeta.cuts
          /\ rpos \in wmeta.cuts
          /\ \A c \in wmeta.cuts : ~(track_end < c /\ c < rpos)
    /\ (NoPitchBend /\ pc = "revent" /\ rpos = track_end) => track_end \in wmeta.cuts

\* C5 amended: read() fails with TrackOverrun (track index, offset of the cursor) exactly
\* when the cursor is past the track's end at the top of the event loop, which is when the
\* declared length ends strictly inside an event: the cursor is then at the end of that
\* event. A declared length that ends on an event boundary, equal to the bytes of the
\* events or smaller, ends the loop with the cursor exactly at the track's end, without
\* error and without consuming a byte beyond it.
C5_TrackBoundary == [](C5_State) /\ [][C5_Step]_vars

\* C5 witness: a track declared one or two bytes short of its events was overrun
C5_Witness ==
    /\ result.kind = "TrackOverrun"
    /\ wmeta.patched
    /\ NoPitchBend
    /\ result.offset > track_end

\* the end of the event written at offset pos: the next event boundary of the writer
NextCut(pos) ==
    LET later == {c \in wmeta.cuts : c > pos}
    IN  IF later = {} THEN NoByte ELSE CHOOSE c \in later : \A d \in later : c <= d

C11_State ==
    /\ (fail_at > 0 /\ Len(callbacks) >= fail_at) =>
          /\ Len(callbacks) = fail_at
          /\ result = HandlerError
          /\ pc = "done"
    /\ result = HandlerError => (fail_at > 0 /\ Len(callbacks) = fail_at)

C11_Step ==
    /\ (fail_at > 0 /\ Len(callbacks') = fail_at /\ callbacks' # callbacks) =>
          LET cb == callbacks'[Len(callbacks')].cb
          IN  /\ result' = HandlerError
              /\ cb = "header" => rpos' = 14
              /\ cb = "track" => rpos' = rpos + 8
              /\ cb \in EventCalls => rpos' = NextCut(rpos)
    /\ result = HandlerError =>
          (rpos' = rpos /\ callbacks' = callbacks /\ result' = result)

\* C11: as soon as a callback of the handler (header, track, midi_event, meta_event,
\* escaped_event, sysex_event) returns an error, read() returns that error, makes no
\* further call on the handler and reads no byte beyond the chunk header or the event
\* the failed call was about.
C11_ObserverFailFast == [](C11_State) /\ [][C11_Step]_vars

\* C11 witness: the handler failed on a sysex_event, after the header, a track and two events
C11_Witness ==
    /\ result = HandlerError
    /\ fail_at = 5
    /\ Len(callbacks) = 5
    /\ callbacks[5].cb = "sysex_event"
    /\ rpos < Len(stream)

\* the offsets (1-based) of the length field of the track that starts at offset start
LenField(start) == (start - 3)..start

C12_Step ==
    (pc = "track" /\ pc' = "writer") =>
        LET start == wmeta.starts[Len(wmeta.starts)]
        IN  /\ FromBe(Slice(stream', start - 4, 4)) = Len(stream) - start
            /\ Len(stream') = Len(stream)
            /\ \A i \in 1..Len(stream) : i \notin LenField(start) => stream'[i] = stream[i]
            /\ wpos' = wpos
            /\ wpos' = Len(stream')

\* C12: TrackWriter::finish() leaves in the 4-byte big-endian field written by the matching
\* Writer::track() exactly the number of bytes the event calls of that track wrote, changes
\* no other byte of the stream, and leaves the stream position where it was before the
\* call, at the end of the track's events.
C12_TrackLenBackpatch == [][C12_Step]_vars

\* C12 witness: the second track, of at least two events and more than 4 bytes, was finished
C12_Witness ==
    /\ pc = "writer"
    /\ Len(wmeta.starts) = 2
    /\ wmeta.ends[2] = Len(stream)
    /\ wmeta.ends[2] - wmeta.starts[2] > 4
    /\ FromBe(Slice(stream, wmeta.starts[2] - 4, 4)) = wmeta.ends[2] - wmeta.starts[2]
    /\ wpos = Len(stream)

\* the number of "MTrk" chunk types in the bytes s
MTrkChunks(s) ==
    Cardinality({o \in 0..(Len(s) - 4) :
        s[o + 1] = 77 /\ s[o + 2] = 84 /\ s[o + 3] = 114 /\ s[o + 4] = 107})

C13_Step ==
    (pc = "writer" /\ pc' = "written") =>
        /\ stream'[11] * 256 + stream'[12] = Len(wmeta.starts)
        /\ stream'[11] * 256 + stream'[12] = MTrkChunks(stream')
        /\ Len(stream') = Len(stream)
        /\ \A i \in 1..Len(stream) : i \notin {11, 12} => stream'[i] = stream[i]
        /\ Len(wmeta.starts) = 0 => stream' = stream
        /\ wpos' = wpos

\* C13: Writer::finish() leaves in the header's 16-bit track-count field the number of
\* track() calls made on the writer, which is the number of "MTrk" chunks of the output,
\* for 0 to 65535 tracks; with no track the stream is not touched; no other byte changes
\* and the stream position is the one before the call.
C13_TrackCountBackpatch == [][C13_Step]_vars

\* C13 witness: a writer of 256 tracks, a count that takes the high byte, was finished
C13_Witness ==
    /\ pc = "written"
    /\ Len(wmeta.starts) = 256
    /\ stream[11] = 1 /\ stream[12] = 0
    /\ wpos = Len(stream)

\* the fields of the header chunk of the stream, read from the file format
MagicBad == Slice(stream, 0, 4) # <<77, 84, 104, 100>>
LengthBad == Slice(stream, 4, 4) # <<0, 0, 0, 6>>
FormatBad == ~(stream[9] = 0 /\ stream[10] \in {0, 1, 2})
FpsBad == stream[13] >= 128 /\ (256 - stream[13]) \notin {24, 25, 29, 30}
HeaderErrors == {"BadMagic", "BadHeaderLength", "BadFormat", "BadSmpteFps"}

AtFirstEvent ==
    /\ pc = "revent"
    /\ callbacks # <<>>
    /\ callbacks[Len(callbacks)].cb = "track"

\* the last event call before the last track() call (a call of no kind if there is none)
LastOfPreviousTrack ==
    IF Len(callbacks) >= 2 /\ callbacks[Len(callbacks) - 1].cb \in EventCalls
    THEN callbacks[Len(callbacks) - 1]
    ELSE Call("none", 0, 0, <<>>)

C15_State ==
    AtFirstEvent => (last_status = 0 /\ ~sysex_continuation)

C15_Step ==
    (AtFirstEvent /\ rpos < track_end /\ StatusAtCursor # NoByte) =>
        /\ StatusAtCursor < 128 =>
              /\ result' = Err("NoRunningStatus", StatusAtCursor, track_index,
                               ReadVlq(stream, rpos).pos + 1)
              /\ callbacks' = callbacks
        /\ result'.kind # "UnexpectedContinuation"

\* C15: at the first event of every track the reader has last_status = 0 and
\* sysex_continuation = false, whatever the track before held: a first status byte < 0x80
\* fails with NoRunningStatus (byte, track, offset) even after a track that ended on a
\* channel event, and no first event fails with UnexpectedContinuation even after a track
\* that ended with the continuation open.
C15_ReaderStatePerTrack == [](C15_State) /\ [][C15_Step]_vars

\* C15 witness: the track after one that ended on a note on began with data bytes alone
\* and was refused
C15_Witness ==
    /\ result.kind = "NoRunningStatus"
    /\ result.track = 1
    /\ Len(callbacks) = 4
    /\ callbacks[4].cb = "track"
    /\ LastOfPreviousTrack.cb = "midi_event"

C16_Step ==
    (pc = "writer" /\ pc' = "track") =>
        (w_last_status' = 0 /\ ~w_sysex_continuation')

\* C16: immediately after every Writer::track() call the writer has last_status = 0 and
\* sysex_continuation = false, whatever was written to the track before, a track left
\* with an open sysex continuation included: the state the reader has at a track start.
C16_WriterStatePerTrack == [][C16_Step]_vars

\* the calls that break running status
BreakCalls == {"meta_event", "escaped_event", "sysex_event"}

\* the reader is within a track, just after an event that breaks running status
AfterBreak ==
    /\ pc = "revent"
    /\ callbacks # <<>>
    /\ callbacks[Len(callbacks)].cb \in BreakCalls

\* the writer side: meta_event, escaped_event and sysex_event leave last_status = 0, and
\* the midi_event after one of them writes its delta and all of its bytes, status first
C17_WriterStep ==
    (pc = "track" /\ Len(wlog') = Len(wlog) + 1) =>
        LET call == wlog'[Len(wlog')]
        IN  /\ call.cb \in BreakCalls => w_last_status' = 0
            /\ (call.cb = "midi_event" /\ wlog[Len(wlog)].cb \in BreakCalls) =>
                  /\ SubSeq(stream', Len(stream) + 1, Len(stream')) =
                        Vlq(call.delta) \o call.data
                  /\ call.data[1] >= 128

\* C17 as claimed, the reader side: after a meta, sysex or escaped event an event that
\* starts with a data byte fails with NoRunningStatus.
C17_ReaderStepAsClaimed ==
    (AfterBreak /\ rpos < track_end /\ StatusAtCursor # NoByte /\ StatusAtCursor < 128) =>
        /\ result'.kind = "NoRunningStatus"
        /\ callbacks' = callbacks

\* C17 as claimed: meta, sysex and escaped events break running status on both sides, and
\* after the reader decodes one of them an event that starts with a data byte fails with
\* NoRunningStatus.
C17_BreakThenNoRunningStatus ==
    [](AfterBreak => last_status = 0) /\ [][C17_WriterStep /\ C17_ReaderStepAsClaimed]_vars

C17_ReaderStep ==
    (AfterBreak /\ rpos < track_end /\ StatusAtCursor # NoByte /\ StatusAtCursor < 128) =>
        /\ result'.kind = (IF sysex_continuation THEN "UnexpectedContinuation"
                           ELSE "NoRunningStatus")
        /\ result'.byte = StatusAtCursor
        /\ result'.track = track_index
        /\ callbacks' = callbacks
        /\ callbacks[Len(callbacks)].cb \in {"meta_event", "escaped_event"} =>
              ~sysex_continuation

\* C17 amended: after the writer's meta_event, escaped_event or sysex_event last_status is
\* 0 and the next midi_event writes its status byte; after the reader decodes a meta,
\* sysex or escaped event last_status is 0, and a following event that starts with a data
\* byte (< 0x80) is never decoded with the earlier status: it fails with NoRunningStatus
\* when sysex_continuation is false, as after a meta or escaped event, and with
\* UnexpectedContinuation when it is set, as after a sysex packet not closed by 0xF7.
C17_StatusBroken ==
    [](AfterBreak => last_status = 0) /\ [][C17_WriterStep /\ C17_ReaderStep]_vars

\* C17 witness: data bytes after a note on and a meta event were refused for want of a
\* running status
C17_Witness ==
    /\ result.kind = "NoRunningStatus"
    /\ Len(callbacks) = 4
    /\ callbacks[3].cb = "midi_event"
    /\ callbacks[4].cb = "meta_event"

\* the event-length rule of the format: 2 for program change and channel pressure, else 3
RuleLen(status) == IF status \div 16 \in {12, 13} THEN 2 ELSE 3

\* C18: for every status byte s in [0x80, 0xF0) the message length that midi_event's
\* precondition accepts is the length the reader requires for s: 2 when the high nibble
\* of s is 0xC or 0xD and 3 otherwise; so every message the writer has accepted has the
\* length the reader reads for its status.
C18_SameLengthRule ==
    \A i \in 1..Len(wlog) :
        wlog[i].cb = "midi_event" =>
            /\ Len(wlog[i].data) = ReaderMidiLen(wlog[i].data[1])
            /\ Len(wlog[i].data) = RuleLen(wlog[i].data[1])

\* the delta of the event at the reader's cursor, and the VLQ-length payload after its
\* status byte
DeltaAtCursor == ReadVlq(stream, rpos).value
PayloadAtCursor == ReadVlqEvent(stream, ReadVlq(stream, rpos).pos + 1)

C19_Step ==
    /\ (/\ pc = "revent" /\ rpos < track_end
        /\ StatusAtCursor = 247 /\ PayloadAtCursor.err = Ok) =>
          IF ~sysex_continuation
          THEN /\ callbacks' = Append(callbacks,
                                 Call("escaped_event", DeltaAtCursor, 0, PayloadAtCursor.data))
               /\ ~sysex_continuation'
               /\ result' = result
          ELSE IF \A i \in 1..Len(PayloadAtCursor.data) : PayloadAtCursor.data[i] < 128
               THEN callbacks' = Append(callbacks,
                                 Call("sysex_event", DeltaAtCursor, 0, PayloadAtCursor.data))
               ELSE /\ result'.kind = "InvalidByte"
                    /\ callbacks' = callbacks
    /\ (callbacks' # callbacks /\ pc = "revent") =>
          LET cb == callbacks'[Len(callbacks')].cb
          IN  /\ cb = "escaped_event" => (~sysex_continuation /\ StatusAtCursor = 247)
              /\ (cb = "sysex_event" /\ StatusAtCursor = 247) => sysex_continuation
              /\ (cb = "sysex_event" /\ ~sysex_continuation) => StatusAtCursor = 240

C20_Step ==
    (pc = "revent" /\ callbacks' # callbacks) =>
        /\ track_end - DeclaredLen(track_index + 1) <= rpos
        /\ rpos' <= track_end

\* C20: every event callback read() delivers for a track covers bytes that lie within the
\* track's declared range, so when read() fails with TrackOverrun the handler has not
\* received the event whose bytes crossed track_end.
C20_NoEventBeyondEnd == [][C20_Step]_vars

====
